---- MODULE Spec2Model ----
(***************************************************************************)
(* tokio-sticky-channel: one Sender (cloneable) in front of N independent  *)
(* tokio mpsc channels, one Receiver per channel.  A send computes          *)
(* hash(id) % N and forwards the message to that channel.                  *)
(*                                                                         *)
(* The mpsc channel is modelled at the level of its semaphore: a bounded   *)
(* channel has `capacity` permits, a send takes one before it pushes, a    *)
(* receive returns one when it pops, and a returned permit is handed to    *)
(* the oldest suspended send before it becomes available to anyone else.   *)
(***************************************************************************)
EXTENDS Integers, Sequences, FiniteSets, TLC

\* ---------------------------------------------------------------- bounds
\* The number of messages the callers pass to sends, and the largest capacity
\* a bounded channel is built with.
MaxMsgs == 2
MaxCapacity == 1

\* u64::MAX and usize::MAX of a platform whose usize is narrower than the
\* 64-bit hash, scaled down: a hash above USIZE_MAX does not convert.
U64_MAX == 7
USIZE_MAX == 3

\* The inputs the calls are made with.
Keys == {1, 2}
Limits == {0, 1, 2}
SenderIds == {1, 2}
Msgs == 1..MaxMsgs
\* The keys (k0, k1) of a RandomState: they fix the hash function.  The first
\* hashes key 1 to 2 and key 2 to 3; under the second the hash of key 1 is 7,
\* which does not convert to usize, and that of key 2 is 1.
Hashers == {[k0 |-> 1, k1 |-> 1], [k0 |-> 2, k1 |-> 5]}
\* The arguments the factories are called with: two consumers under the first
\* hasher (key 1 goes to channel 0, key 2 to channel 1), one consumer under the
\* second (key 1 has no route, key 2 goes to channel 0).
FactoryArgs ==
    {[num_consumers |-> 2, build_hasher |-> [k0 |-> 1, k1 |-> 1]],
     [num_consumers |-> 1, build_hasher |-> [k0 |-> 2, k1 |-> 5]]}

VARIABLES
    variant,     \* "bounded" (sticky_channel) or "unbounded" (unbounded_sticky_channel)
    capacity,    \* the capacity given to mpsc::channel; 0 for the unbounded variant
    receivers,   \* the Vec<Receiver> returned: position -> channel
    senders,     \* Sender clones: id -> [alive, build_hasher, consumers]
    tx_op,       \* per clone: its suspended send, [st, key, msg, chan]
    buf,         \* per channel: the buffered messages, oldest first
    permits,     \* per channel: the semaphore's available permits (bounded)
    rx_closed,   \* per channel: close() was called (or the Receiver dropped)
    waiters,     \* per channel: the semaphore's queue of suspended sends, oldest first
    rx_alive,    \* per position: the Receiver has not been dropped
    rx_op,       \* per position: its suspended receive, [op, limit]
    received,    \* per position: every message its receive calls returned, in order
    got_none,    \* per position: a recv has returned None
    next_msg,    \* the next new message a caller passes to a send
    sent_key,    \* per message: the id of the last send it was passed to (0: none)
    outcome,     \* per message: what the last send it was passed to returned
    enq,         \* per channel: every message pushed into it, in push order
    returned,    \* messages a SendError handed back, in the caller's hands
    lost,        \* messages destroyed without being delivered or handed back
    at_close,    \* per channel: [called, buf, n] whether close() was called (or the
                 \* Receiver dropped), and the buffer and the number of messages
                 \* already received when it last was
    panicked     \* the factory call panicked: it returned no Sender and no Receiver

vars == <<variant, capacity, receivers, senders, tx_op, buf, permits, rx_closed,
          waiters, rx_alive, rx_op, received, got_none, next_msg, sent_key, outcome,
          enq, returned, lost, at_close, panicked>>

chan_vars == <<buf, permits, rx_closed, waiters, enq>>
rx_vars == <<rx_alive, rx_op, received, got_none>>
msg_vars == <<next_msg, sent_key, outcome, returned, lost>>
cfg_vars == <<variant, capacity, receivers, panicked>>
hist_vars == <<at_close>>

Chans == DOMAIN buf
Positions == DOMAIN receivers
\* consumers.get(route_id) found no channel.
NoChan == -1
NoSender == [alive |-> FALSE, build_hasher |-> [k0 |-> 0, k1 |-> 0], consumers |-> <<>>]
IdleTx == [st |-> "idle", key |-> 0, msg |-> 0, chan |-> NoChan]
IdleRx == [op |-> "idle", limit |-> 0]
SendErrors == {"NoConsumer", "ChannelClosed", "ChannelFull", "FailedToComputeRouteID"}

Min(a, b) == IF a <= b THEN a ELSE b

\* The elements of s that are not x, in order.
Without(s, x) == SelectSeq(s, LAMBDA y : y # x)

RECURSIVE SeqToSet(_)
SeqToSet(s) == IF s = <<>> THEN {} ELSE {Head(s)} \cup SeqToSet(Tail(s))

\* ------------------------------------------------------------ route id
\* BuildHasher::hash_one: a 64-bit hash fixed by the hasher's keys and the id.
hash_one(build_hasher, id) == (id * build_hasher.k0 + build_hasher.k1) % (U64_MAX + 1)

\* A conversion that keeps the low bits of a hash that does not fit: C24 must
\* tell it from usize_try_from.
usize_truncating(h) == [ok |-> TRUE, val |-> h % (USIZE_MAX + 1)]

\* usize::try_from(u64)
usize_try_from(h) ==
    IF h <= USIZE_MAX THEN [ok |-> TRUE, val |-> h] ELSE [ok |-> FALSE, val |-> 0]

\* A route id whose hasher is seeded anew at every call instead of once by the
\* factory: C1 must tell it from compute_route_id.
compute_route_id_reseeded(id, num_consumers, build_hasher) ==
    LET hash == usize_try_from((id * build_hasher.k0 + next_msg) % (U64_MAX + 1))
    IN  IF hash.ok THEN [ok |-> TRUE, val |-> hash.val % num_consumers] ELSE hash

\* A route id that is the hash itself, not reduced modulo the number of
\* consumers: C26 must tell it from compute_route_id.
compute_route_id_unreduced(id, num_consumers, build_hasher) ==
    usize_try_from(hash_one(build_hasher, id))

compute_route_id(id, num_consumers, build_hasher) ==
    LET hash == usize_try_from(hash_one(build_hasher, id))
    IN  IF hash.ok THEN [ok |-> TRUE, val |-> hash.val % num_consumers] ELSE hash

\* ------------------------------------------------------------- factory
\* A loop that pushes one endpoint more than it pushes receivers: C23 must tell
\* it from NewConsumers.
NewConsumers_one_more(num_consumers) == [p \in 0..num_consumers |-> p]

\* The loop of the factory: channel c is made in iteration c, its tx pushed to
\* sender.consumers and its rx to receivers.
NewConsumers(num_consumers) == [p \in 0..(num_consumers - 1) |-> p]

\* The receivers returned in the reverse of the order the senders index them
\* by: C5 must tell it from NewReceivers.
NewReceivers_reversed(num_consumers) ==
    [p \in 0..(num_consumers - 1) |-> num_consumers - 1 - p]

NewReceivers(num_consumers) == [p \in 0..(num_consumers - 1) |-> p]

Construct(kind, num_consumers, cap, build_hasher) ==
    LET chans == 0..(num_consumers - 1)
    IN  /\ variant = kind
        /\ capacity = cap
        /\ receivers = NewReceivers(num_consumers)
        /\ senders = [s \in SenderIds |->
                        IF s = 1
                        THEN [alive |-> TRUE, build_hasher |-> build_hasher,
                              consumers |-> NewConsumers(num_consumers)]
                        ELSE NoSender]
        /\ tx_op = [s \in SenderIds |-> IdleTx]
        /\ buf = [c \in chans |-> <<>>]
        /\ permits = [c \in chans |-> cap]
        /\ rx_closed = [c \in chans |-> FALSE]
        /\ waiters = [c \in chans |-> <<>>]
        /\ rx_alive = [p \in chans |-> TRUE]
        /\ rx_op = [p \in chans |-> IdleRx]
        /\ received = [p \in chans |-> <<>>]
        /\ got_none = [p \in chans |-> FALSE]
        /\ next_msg = 1
        /\ sent_key = [m \in Msgs |-> 0]
        /\ outcome = [m \in Msgs |-> "unsent"]
        /\ enq = [c \in chans |-> <<>>]
        /\ returned = {}
        /\ lost = {}
        /\ at_close = [c \in chans |-> [called |-> FALSE, buf |-> <<>>, n |-> 0]]
        /\ panicked = FALSE

\* tokio::sync::mpsc::channel(buffer) asserts buffer > 0.
mpsc_channel_panics(cap) == cap = 0

\* The factory call unwinds from its first iteration: the caller gets neither
\* the Sender nor a Receiver, and no channel exists.
Unwound(kind, cap) ==
    /\ variant = kind
    /\ capacity = cap
    /\ receivers = <<>>
    /\ senders = [s \in SenderIds |-> NoSender]
    /\ tx_op = [s \in SenderIds |-> IdleTx]
    /\ buf = <<>>
    /\ permits = <<>>
    /\ rx_closed = <<>>
    /\ waiters = <<>>
    /\ rx_alive = <<>>
    /\ rx_op = <<>>
    /\ received = <<>>
    /\ got_none = <<>>
    /\ next_msg = 1
    /\ sent_key = [m \in Msgs |-> 0]
    /\ outcome = [m \in Msgs |-> "unsent"]
    /\ enq = <<>>
    /\ returned = {}
    /\ lost = {}
    /\ at_close = <<>>
    /\ panicked = TRUE

sticky_channel_with_hasher(num_consumers, cap, build_hasher) ==
    IF mpsc_channel_panics(cap)
    THEN Unwound("bounded", cap)
    ELSE Construct("bounded", num_consumers, cap, build_hasher)

unbounded_sticky_channel_with_hasher(num_consumers, build_hasher) ==
    Construct("unbounded", num_consumers, 0, build_hasher)

Init ==
    \E args \in FactoryArgs :
        \/ \E cap \in 0..MaxCapacity :
              sticky_channel_with_hasher(args.num_consumers, cap, args.build_hasher)
        \/ unbounded_sticky_channel_with_hasher(args.num_consumers, args.build_hasher)

\* ------------------------------------------------------- mpsc channel
AliveSenders == {s \in SenderIds : senders[s].alive}

\* The channels closed by the drop of the first Sender instead of the last
\* clone: C10 must tell it from tx_closed.
tx_closed_by_first == ~senders[1].alive

\* Every tx handle of the channels has been dropped.
tx_closed == AliveSenders = {}

\* Semaphore::is_idle: no permit is out (bounded); no message counted (unbounded).
is_idle(c) == IF variant = "bounded" THEN permits[c] = capacity ELSE buf[c] = <<>>

\* Semaphore::add_permits on a pop or a returned permit: the oldest suspended
\* sends get them, what is left becomes available.
add_permits(c, k, wq, txo, pm) ==
    LET g == Min(k, Len(wq[c]))
        granted == {wq[c][j] : j \in 1..g}
    IN  /\ waiters' = [wq EXCEPT ![c] = SubSeq(wq[c], g + 1, Len(wq[c]))]
        /\ tx_op' = [s \in SenderIds |->
                        IF s \in granted THEN [txo[s] EXCEPT !.st = "granted"] ELSE txo[s]]
        /\ permits' = [pm EXCEPT ![c] = pm[c] + (k - g)]

\* A push at the head of the list: C2 must tell it from Push.
Push_front(c, message) ==
    /\ buf' = [buf EXCEPT ![c] = <<message>> \o @]
    /\ enq' = [enq EXCEPT ![c] = Append(@, message)]

\* chan::Tx::send: the value is pushed on the channel's list.
Push(c, message) ==
    /\ buf' = [buf EXCEPT ![c] = Append(@, message)]
    /\ enq' = [enq EXCEPT ![c] = Append(@, message)]

\* A send that pushes without a permit: C28 must tell it from mpsc_send.
mpsc_send_without_permit(c) == IF rx_closed[c] THEN "ChannelClosed" ELSE "Ok"

\* mpsc::Sender::send, first poll: reserve().await, then push.  Closed is looked
\* at first; with no permit available the send joins the semaphore's queue.
mpsc_send(c) ==
    IF rx_closed[c] THEN "ChannelClosed"
    ELSE IF permits[c] > 0 THEN "Ok" ELSE "Pending"

\* A try_send that does not look at the permits: C6 must tell it from
\* mpsc_try_send.
mpsc_try_send_unlimited(c) == IF rx_closed[c] THEN "ChannelClosed" ELSE "Ok"

\* A try_send that looks at the permits before it looks at closed: C8 must tell
\* it from mpsc_try_send.
mpsc_try_send_full_first(c) ==
    IF permits[c] = 0 THEN "ChannelFull"
    ELSE IF rx_closed[c] THEN "ChannelClosed" ELSE "Ok"

\* A try_send that reports a full buffer whether or not the channel is closed:
\* C27 must tell it from mpsc_try_send.
mpsc_try_send_buffer_first(c) ==
    IF Len(buf[c]) >= capacity THEN "ChannelFull"
    ELSE IF rx_closed[c] THEN "ChannelClosed"
    ELSE IF permits[c] = 0 THEN "ChannelFull" ELSE "Ok"

\* mpsc::Sender::try_send: closed is looked at before the permits.
mpsc_try_send(c) ==
    IF rx_closed[c] THEN "ChannelClosed"
    ELSE IF permits[c] = 0 THEN "ChannelFull" ELSE "Ok"

\* An unbounded send that refuses a second buffered message: C15 must tell it
\* from mpsc_unbounded_send.
mpsc_unbounded_send_one_slot(c) ==
    IF rx_closed[c] THEN "ChannelClosed"
    ELSE IF buf[c] # <<>> THEN "ChannelFull" ELSE "Ok"

\* mpsc::UnboundedSender::send: there is no permit to wait for.
mpsc_unbounded_send(c) == IF rx_closed[c] THEN "ChannelClosed" ELSE "Ok"

\* ------------------------------------------------------------ sending
\* The route id the clone s computes for the id given.  The private
\* compute_route_id of bounded/sender.rs and unbounded/sender.rs hashes with
\* DefaultHasher::new(), whose keys are fixed: one more hasher fixed for the
\* life of the channel, as build_hasher is.
route_id(s, id) ==
    compute_route_id(id, Cardinality(DOMAIN senders[s].consumers), senders[s].build_hasher)

\* self.consumers.get(route_id): the channel the send goes to.
target(s, id) ==
    IF route_id(s, id).ok /\ route_id(s, id).val \in DOMAIN senders[s].consumers
    THEN senders[s].consumers[route_id(s, id).val]
    ELSE NoChan

\* A send that looks at its first endpoint before it computes the route, and
\* suspends or fails on it: C25 must tell it from Sender_send_result.
Sender_send_result_queue_first(s, id) ==
    IF mpsc_send(senders[s].consumers[0]) # "Ok"
    THEN mpsc_send(senders[s].consumers[0])
    ELSE IF route_id(s, id).ok
    THEN IF route_id(s, id).val \in DOMAIN senders[s].consumers
         THEN mpsc_send(target(s, id))
         ELSE "NoConsumer"
    ELSE "FailedToComputeRouteID"

\* What Sender::send returns at its first poll ("Pending": it suspends).
Sender_send_result(s, id) ==
    IF route_id(s, id).ok
    THEN IF route_id(s, id).val \in DOMAIN senders[s].consumers
         THEN mpsc_send(target(s, id))
         ELSE "NoConsumer"
    ELSE "FailedToComputeRouteID"

\* What Sender::try_send returns.
Sender_try_send_result(s, id) ==
    IF route_id(s, id).ok
    THEN IF route_id(s, id).val \in DOMAIN senders[s].consumers
         THEN mpsc_try_send(target(s, id))
         ELSE "NoConsumer"
    ELSE "FailedToComputeRouteID"

\* What UnboundedSender::send returns.
UnboundedSender_send_result(s, id) ==
    IF route_id(s, id).ok
    THEN IF route_id(s, id).val \in DOMAIN senders[s].consumers
         THEN mpsc_unbounded_send(target(s, id))
         ELSE "NoConsumer"
    ELSE "FailedToComputeRouteID"

\* What the caller can pass to a send: a message an earlier send handed back,
\* or a new one.
InHand == returned \cup (IF next_msg <= MaxMsgs THEN {next_msg} ELSE {})

\* The caller moves message into a send made with key id, which returns res.
PassMessage(id, message, res) ==
    /\ message \in InHand
    /\ next_msg' = IF message = next_msg THEN next_msg + 1 ELSE next_msg
    /\ sent_key' = [sent_key EXCEPT ![message] = id]
    /\ outcome' = [outcome EXCEPT ![message] = res]

\* A send whose error drops the message instead of handing it back: C3 must
\* tell it from SendEffect.
SendEffect_drop_on_error(s, id, message, res, c) ==
    IF res = "Ok"
    THEN /\ Push(c, message)
         /\ permits' = IF variant = "bounded" THEN [permits EXCEPT ![c] = @ - 1]
                       ELSE permits
         /\ returned' = returned \ {message}
         /\ UNCHANGED <<rx_closed, waiters, tx_op, lost>>
    ELSE IF res = "Pending"
    THEN /\ waiters' = [waiters EXCEPT ![c] = Append(@, s)]
         /\ tx_op' = [tx_op EXCEPT ![s] =
                        [st |-> "waiting", key |-> id, msg |-> message, chan |-> c]]
         /\ returned' = returned \ {message}
         /\ UNCHANGED <<buf, enq, permits, rx_closed, lost>>
    ELSE /\ returned' = returned \ {message}
         /\ lost' = lost \cup {message}
         /\ UNCHANGED <<chan_vars, tx_op>>

\* A send whose error hands the message back and also leaves a copy of it in
\* the channel: C12 must tell it from SendEffect.
SendEffect_enqueue_on_error(s, id, message, res, c) ==
    IF res = "Ok"
    THEN /\ Push(c, message)
         /\ permits' = IF variant = "bounded" THEN [permits EXCEPT ![c] = @ - 1]
                       ELSE permits
         /\ returned' = returned \ {message}
         /\ UNCHANGED <<rx_closed, waiters, tx_op, lost>>
    ELSE IF res = "Pending"
    THEN /\ waiters' = [waiters EXCEPT ![c] = Append(@, s)]
         /\ tx_op' = [tx_op EXCEPT ![s] =
                        [st |-> "waiting", key |-> id, msg |-> message, chan |-> c]]
         /\ returned' = returned \ {message}
         /\ UNCHANGED <<buf, enq, permits, rx_closed, lost>>
    ELSE /\ returned' = returned \cup {message}
         /\ IF c = NoChan THEN UNCHANGED <<buf, enq>> ELSE Push(c, message)
         /\ UNCHANGED <<permits, rx_closed, waiters, tx_op, lost>>

\* What a send that returns res does with the message: Ok pushes it on channel
\* c and takes a permit of a bounded channel; Pending queues the send on the
\* semaphore; an error hands the message back and touches no channel.
SendEffect(s, id, message, res, c) ==
    IF res = "Ok"
    THEN /\ Push(c, message)
         /\ permits' = IF variant = "bounded" THEN [permits EXCEPT ![c] = @ - 1]
                       ELSE permits
         /\ returned' = returned \ {message}
         /\ UNCHANGED <<rx_closed, waiters, tx_op, lost>>
    ELSE IF res = "Pending"
    THEN /\ waiters' = [waiters EXCEPT ![c] = Append(@, s)]
         /\ tx_op' = [tx_op EXCEPT ![s] =
                        [st |-> "waiting", key |-> id, msg |-> message, chan |-> c]]
         /\ returned' = returned \ {message}
         /\ UNCHANGED <<buf, enq, permits, rx_closed, lost>>
    ELSE /\ returned' = returned \cup {message}
         /\ UNCHANGED <<chan_vars, tx_op, lost>>

Sender_send(s, id, message) ==
    /\ variant = "bounded"
    /\ senders[s].alive
    /\ tx_op[s].st = "idle"
    /\ PassMessage(id, message, Sender_send_result(s, id))
    /\ SendEffect(s, id, message, Sender_send_result(s, id), target(s, id))
    /\ UNCHANGED <<cfg_vars, hist_vars, senders, rx_vars>>

Sender_try_send(s, id, message) ==
    /\ variant = "bounded"
    /\ senders[s].alive
    /\ tx_op[s].st = "idle"
    /\ PassMessage(id, message, Sender_try_send_result(s, id))
    /\ SendEffect(s, id, message, Sender_try_send_result(s, id), target(s, id))
    /\ UNCHANGED <<cfg_vars, hist_vars, senders, rx_vars>>

UnboundedSender_send(s, id, message) ==
    /\ variant = "unbounded"
    /\ senders[s].alive
    /\ PassMessage(id, message, UnboundedSender_send_result(s, id))
    /\ SendEffect(s, id, message, UnboundedSender_send_result(s, id), target(s, id))
    /\ UNCHANGED <<cfg_vars, hist_vars, senders, rx_vars>>

\* A suspended send that does not look at closed when it is polled again: C13
\* must tell it from Sender_send_resume_result.
Sender_send_resume_result_ignoring_close(s) ==
    IF tx_op[s].st = "granted" THEN "Ok" ELSE "Pending"

\* What a suspended send returns when it is polled again: closed is looked at
\* first ("Pending": it is not woken yet).
Sender_send_resume_result(s) ==
    IF rx_closed[tx_op[s].chan] THEN "ChannelClosed"
    ELSE IF tx_op[s].st = "granted" THEN "Ok" ELSE "Pending"

\* A resumed send that keeps the permit it holds when it finds the channel
\* closed: C30 must tell it from Sender_send_resume.
Sender_send_resume_keeping_permit(s) ==
    LET c == tx_op[s].chan
        message == tx_op[s].msg
        res == Sender_send_resume_result(s)
        idle == [tx_op EXCEPT ![s] = IdleTx]
    IN  /\ tx_op[s].st \in {"waiting", "granted"}
        /\ res # "Pending"
        /\ outcome' = [outcome EXCEPT ![message] = res]
        /\ IF res = "ChannelClosed"
           THEN /\ returned' = returned \cup {message}
                /\ tx_op' = idle
                /\ UNCHANGED <<waiters, permits>>
                /\ UNCHANGED <<buf, enq>>
           ELSE /\ Push(c, message)
                /\ tx_op' = idle
                /\ UNCHANGED <<waiters, permits, returned>>
        /\ UNCHANGED <<cfg_vars, hist_vars, senders, rx_vars, rx_closed, next_msg, sent_key, lost>>

\* A suspended send is woken with a permit or by the close of its channel.  A
\* permit it holds when it finds the channel closed is given back.
Sender_send_resume(s) ==
    LET c == tx_op[s].chan
        message == tx_op[s].msg
        res == Sender_send_resume_result(s)
        idle == [tx_op EXCEPT ![s] = IdleTx]
    IN  /\ tx_op[s].st \in {"waiting", "granted"}
        /\ res # "Pending"
        /\ outcome' = [outcome EXCEPT ![message] = res]
        /\ IF res = "ChannelClosed"
           THEN /\ returned' = returned \cup {message}
                /\ IF tx_op[s].st = "granted"
                   THEN add_permits(c, 1, waiters, idle, permits)
                   ELSE /\ tx_op' = idle
                        /\ UNCHANGED <<waiters, permits>>
                /\ UNCHANGED <<buf, enq>>
           ELSE /\ Push(c, message)
                /\ tx_op' = idle
                /\ UNCHANGED <<waiters, permits, returned>>
        /\ UNCHANGED <<cfg_vars, hist_vars, senders, rx_vars, rx_closed, next_msg, sent_key, lost>>

\* The caller drops the future of a suspended send (another select! branch
\* completed first): the message it owns is dropped with it, its place in the
\* queue is given up and a permit it already held is given back.
Sender_send_cancel(s) ==
    LET c == tx_op[s].chan
        idle == [tx_op EXCEPT ![s] = IdleTx]
    IN  /\ tx_op[s].st \in {"waiting", "granted"}
        /\ lost' = lost \cup {tx_op[s].msg}
        /\ outcome' = [outcome EXCEPT ![tx_op[s].msg] = "Dropped"]
        /\ IF tx_op[s].st = "granted"
           THEN add_permits(c, 1, waiters, idle, permits)
           ELSE /\ tx_op' = idle
                /\ waiters' = [waiters EXCEPT ![c] = Without(@, s)]
                /\ UNCHANGED permits
        /\ UNCHANGED <<cfg_vars, hist_vars, senders, rx_vars, buf, enq, rx_closed, next_msg,
                       sent_key, returned>>

\* #[derive(Clone)]: the clone holds a copy of every field.
CloneOf(sender) == sender

FreeSenderId == CHOOSE s2 \in SenderIds : ~senders[s2].alive /\
                    \A s3 \in SenderIds : ~senders[s3].alive => s2 <= s3

Sender_clone(s) ==
    /\ senders[s].alive
    /\ \E s2 \in SenderIds : ~senders[s2].alive
    /\ senders' = [senders EXCEPT ![FreeSenderId] = CloneOf(senders[s])]
    /\ UNCHANGED <<cfg_vars, hist_vars, tx_op, chan_vars, rx_vars, msg_vars>>

\* A clone is dropped; a clone whose send is suspended stays borrowed by it.
Sender_drop(s) ==
    /\ senders[s].alive
    /\ tx_op[s].st = "idle"
    /\ senders' = [senders EXCEPT ![s] = NoSender]
    /\ UNCHANGED <<cfg_vars, hist_vars, tx_op, chan_vars, rx_vars, msg_vars>>

\* ---------------------------------------------------------- receiving
\* A pop that takes the k newest values instead of the k oldest: C19 must tell
\* it from Pop.
Pop_newest(c, k) ==
    /\ buf' = [buf EXCEPT ![c] = SubSeq(@, 1, Len(@) - k)]
    /\ IF variant = "bounded"
       THEN add_permits(c, k, waiters, tx_op, permits)
       ELSE UNCHANGED <<waiters, tx_op, permits>>

\* chan::Rx pops k values: the permits go back to the semaphore (bounded).
Pop(c, k) ==
    /\ buf' = [buf EXCEPT ![c] = SubSeq(@, k + 1, Len(@))]
    /\ IF variant = "bounded"
       THEN add_permits(c, k, waiters, tx_op, permits)
       ELSE UNCHANGED <<waiters, tx_op, permits>>

\* An end reported whenever the buffer is empty, closed or not: C18 must tell
\* it from rx_finished.
rx_finished_when_empty(c) == buf[c] = <<>>

\* chan::Rx reports the end: the list is closed by the last tx handle, or
\* close() was called and no permit is out.
rx_finished(c) == buf[c] = <<>> /\ (tx_closed \/ (rx_closed[c] /\ is_idle(c)))

\* A recv that reports the end as soon as the last Sender is gone, buffered
\* values or not: C4 must tell it from mpsc_recv.
mpsc_recv_none_on_drop(c) ==
    IF tx_closed THEN "None"
    ELSE IF buf[c] # <<>> THEN "Some"
    ELSE IF rx_finished(c) THEN "None" ELSE "Pending"

\* A recv that reports the end only when every Sender is gone and keeps
\* waiting after close(): C14 must tell it from mpsc_recv.
mpsc_recv_ignoring_close(c) ==
    IF buf[c] # <<>> THEN "Some"
    ELSE IF tx_closed THEN "None" ELSE "Pending"

\* mpsc::Receiver::recv, one poll ("Pending": the task sleeps).
mpsc_recv(c) ==
    IF buf[c] # <<>> THEN "Some"
    ELSE IF rx_finished(c) THEN "None" ELSE "Pending"

\* A recv_many without the early return for limit 0: C17 must tell it from
\* mpsc_recv_many.
mpsc_recv_many_no_zero_case(c, limit) ==
    IF buf[c] # <<>> THEN [pending |-> FALSE, n |-> Min(limit, Len(buf[c]))]
    ELSE IF rx_finished(c) THEN [pending |-> FALSE, n |-> 0]
    ELSE [pending |-> TRUE, n |-> 0]

\* mpsc::Receiver::recv_many, one poll: the number of values moved to the
\* caller's buffer.
mpsc_recv_many(c, limit) ==
    IF limit = 0 THEN [pending |-> FALSE, n |-> 0]
    ELSE IF buf[c] # <<>> THEN [pending |-> FALSE, n |-> Min(limit, Len(buf[c]))]
    ELSE IF rx_finished(c) THEN [pending |-> FALSE, n |-> 0]
    ELSE [pending |-> TRUE, n |-> 0]

\* A try_recv that never reports the end: C9 must tell it from mpsc_try_recv.
mpsc_try_recv_never_disconnected(c) == IF buf[c] # <<>> THEN {"Ok"} ELSE {"Empty"}

\* A try_recv that looks at closed before it looks at the buffer: C16 must tell
\* it from mpsc_try_recv.
mpsc_try_recv_closed_first(c) ==
    IF tx_closed \/ rx_closed[c] THEN {"Disconnected"}
    ELSE IF buf[c] # <<>> THEN {"Ok"} ELSE {"Empty"}

\* mpsc::Receiver::try_recv: the results it can return.  On an empty channel
\* that close() closed while a Sender is alive, the tokio releases differ: the
\* list is not closed by a tx handle and the older ones report Empty, the newer
\* ones look at rx_closed and report Disconnected.
mpsc_try_recv(c) ==
    IF buf[c] # <<>> THEN {"Ok"}
    ELSE IF tx_closed THEN {"Disconnected"}
    ELSE IF rx_closed[c] THEN {"Disconnected", "Empty"}
    ELSE {"Empty"}

\* A receive call starts on an idle Receiver, or the suspended one is woken.
RxCanPoll(p, op, ready) ==
    /\ rx_alive[p]
    /\ \/ rx_op[p].op = "idle"
       \/ rx_op[p].op = op /\ ready

Rx_recv(p) ==
    LET c == receivers[p]
        res == mpsc_recv(c)
    IN  /\ RxCanPoll(p, "recv", res # "Pending")
        /\ IF res = "Some"
           THEN /\ Pop(c, 1)
                /\ received' = [received EXCEPT ![p] = Append(@, Head(buf[c]))]
                /\ rx_op' = [rx_op EXCEPT ![p] = IdleRx]
                /\ UNCHANGED got_none
           ELSE IF res = "None"
           THEN /\ got_none' = [got_none EXCEPT ![p] = TRUE]
                /\ rx_op' = [rx_op EXCEPT ![p] = IdleRx]
                /\ UNCHANGED <<buf, waiters, tx_op, permits, received>>
           ELSE /\ rx_op' = [rx_op EXCEPT ![p] = [op |-> "recv", limit |-> 0]]
                /\ UNCHANGED <<buf, waiters, tx_op, permits, received, got_none>>
        /\ UNCHANGED <<cfg_vars, hist_vars, senders, rx_closed, enq, rx_alive, msg_vars>>

Rx_recv_many(p, limit) ==
    LET c == receivers[p]
        res == mpsc_recv_many(c, limit)
    IN  /\ RxCanPoll(p, "recv_many", ~res.pending)
        /\ rx_op[p].op = "recv_many" => limit = rx_op[p].limit
        /\ IF res.pending
           THEN /\ rx_op' = [rx_op EXCEPT ![p] = [op |-> "recv_many", limit |-> limit]]
                /\ UNCHANGED <<buf, waiters, tx_op, permits, received>>
           ELSE /\ rx_op' = [rx_op EXCEPT ![p] = IdleRx]
                /\ received' = [received EXCEPT ![p] = @ \o SubSeq(buf[c], 1, res.n)]
                /\ IF res.n > 0 THEN Pop(c, res.n)
                   ELSE UNCHANGED <<buf, waiters, tx_op, permits>>
        /\ UNCHANGED <<cfg_vars, hist_vars, senders, rx_closed, enq, rx_alive, got_none, msg_vars>>

Rx_try_recv(p) ==
    LET c == receivers[p]
    IN  /\ rx_alive[p]
        /\ rx_op[p].op = "idle"
        /\ \E res \in mpsc_try_recv(c) :
              IF res = "Ok"
              THEN /\ Pop(c, 1)
                   /\ received' = [received EXCEPT ![p] = Append(@, Head(buf[c]))]
              ELSE UNCHANGED <<buf, waiters, tx_op, permits, received>>
        /\ UNCHANGED <<cfg_vars, hist_vars, senders, rx_closed, enq, rx_alive, rx_op, got_none,
                       msg_vars>>

\* A close that also clears the buffer: C7 must tell it from Rx_close.
Rx_close_clearing(p) ==
    LET c == receivers[p]
    IN  /\ rx_alive[p]
        /\ rx_op[p].op = "idle"
        /\ rx_closed' = [rx_closed EXCEPT ![c] = TRUE]
        /\ waiters' = [waiters EXCEPT ![c] = <<>>]
        /\ at_close' = [at_close EXCEPT ![c] =
                          [called |-> TRUE, buf |-> buf[c], n |-> Len(received[p])]]
        /\ buf' = [buf EXCEPT ![c] = <<>>]
        /\ permits' = [permits EXCEPT ![c] =
                         IF variant = "bounded" THEN @ + Len(buf[c]) ELSE @]
        /\ UNCHANGED <<cfg_vars, senders, tx_op, enq, rx_vars, msg_vars>>

\* A close that closes every queue of the channel, not only the Receiver's
\* own: C29 must tell it from Rx_close.
Rx_close_every_queue(p) ==
    LET c == receivers[p]
    IN  /\ rx_alive[p]
        /\ rx_op[p].op = "idle"
        /\ rx_closed' = [c2 \in Chans |-> TRUE]
        /\ waiters' = [c2 \in Chans |-> <<>>]
        /\ at_close' = [at_close EXCEPT ![c] =
                          [called |-> TRUE, buf |-> buf[c], n |-> Len(received[p])]]
        /\ UNCHANGED <<cfg_vars, senders, tx_op, buf, permits, enq, rx_vars, msg_vars>>

\* mpsc::Receiver::close: the semaphore is closed and every suspended send is
\* woken; the buffered values stay.
Rx_close(p) ==
    LET c == receivers[p]
    IN  /\ rx_alive[p]
        /\ rx_op[p].op = "idle"
        /\ rx_closed' = [rx_closed EXCEPT ![c] = TRUE]
        /\ waiters' = [waiters EXCEPT ![c] = <<>>]
        /\ at_close' = [at_close EXCEPT ![c] =
                          [called |-> TRUE, buf |-> buf[c], n |-> Len(received[p])]]
        /\ UNCHANGED <<cfg_vars, senders, tx_op, buf, permits, enq, rx_vars, msg_vars>>

\* bounded::Receiver
Receiver_recv(p) == variant = "bounded" /\ Rx_recv(p)

Receiver_recv_many(p, limit) == variant = "bounded" /\ Rx_recv_many(p, limit)

Receiver_try_recv(p) == variant = "bounded" /\ Rx_try_recv(p)

Receiver_close(p) == variant = "bounded" /\ Rx_close(p)

\* unbounded::UnboundedReceiver
UnboundedReceiver_recv(p) == variant = "unbounded" /\ Rx_recv(p)

UnboundedReceiver_recv_many(p, limit) == variant = "unbounded" /\ Rx_recv_many(p, limit)

UnboundedReceiver_try_recv(p) == variant = "unbounded" /\ Rx_try_recv(p)

UnboundedReceiver_close(p) == variant = "unbounded" /\ Rx_close(p)

\* A receive future that has taken the value it was woken for and loses it
\* when it is dropped: C20 must tell it from Receiver_cancel.
Receiver_cancel_consuming(p) ==
    LET c == receivers[p]
    IN  /\ rx_alive[p]
        /\ rx_op[p].op # "idle"
        /\ rx_op' = [rx_op EXCEPT ![p] = IdleRx]
        /\ IF buf[c] # <<>>
           THEN /\ Pop(c, 1)
                /\ lost' = lost \cup {Head(buf[c])}
           ELSE UNCHANGED <<buf, waiters, tx_op, permits, lost>>
        /\ UNCHANGED <<cfg_vars, hist_vars, senders, rx_closed, enq, rx_alive, received,
                       got_none, next_msg, sent_key, outcome, returned>>

\* The caller drops the future of a suspended recv or recv_many.
Receiver_cancel(p) ==
    /\ rx_alive[p]
    /\ rx_op[p].op # "idle"
    /\ rx_op' = [rx_op EXCEPT ![p] = IdleRx]
    /\ UNCHANGED <<cfg_vars, hist_vars, senders, tx_op, chan_vars, rx_alive, received, got_none,
                   msg_vars>>

\* A drop of the Receiver that leaves its channel open: C11 must tell it from
\* Receiver_drop.
Receiver_drop_leaving_open(p) ==
    LET c == receivers[p]
    IN  /\ rx_alive[p]
        /\ rx_op[p].op = "idle"
        /\ rx_alive' = [rx_alive EXCEPT ![p] = FALSE]
        /\ lost' = lost \cup SeqToSet(buf[c])
        /\ buf' = [buf EXCEPT ![c] = <<>>]
        /\ permits' = [permits EXCEPT ![c] =
                         IF variant = "bounded" THEN @ + Len(buf[c]) ELSE @]
        /\ UNCHANGED <<cfg_vars, hist_vars, senders, tx_op, enq, rx_op, received, got_none,
                       next_msg, sent_key, outcome, returned, rx_closed, waiters>>

\* The Receiver is dropped: the channel is closed and what it still buffers is
\* dropped with it.
Receiver_drop(p) ==
    LET c == receivers[p]
    IN  /\ rx_alive[p]
        /\ rx_op[p].op = "idle"
        /\ rx_alive' = [rx_alive EXCEPT ![p] = FALSE]
        /\ rx_closed' = [rx_closed EXCEPT ![c] = TRUE]
        /\ lost' = lost \cup SeqToSet(buf[c])
        /\ buf' = [buf EXCEPT ![c] = <<>>]
        /\ waiters' = [waiters EXCEPT ![c] = <<>>]
        /\ permits' = [permits EXCEPT ![c] =
                         IF variant = "bounded" THEN @ + Len(buf[c]) ELSE @]
        /\ at_close' = [at_close EXCEPT ![c] =
                          [called |-> TRUE, buf |-> buf[c], n |-> Len(received[p])]]
        /\ UNCHANGED <<cfg_vars, senders, tx_op, enq, rx_op, received, got_none,
                       next_msg, sent_key, outcome, returned>>

\* ------------------------------------------------------- specification
Next ==
    \/ \E s \in SenderIds, id \in Keys, message \in Msgs : Sender_send(s, id, message)
    \/ \E s \in SenderIds, id \in Keys, message \in Msgs : Sender_try_send(s, id, message)
    \/ \E s \in SenderIds, id \in Keys, message \in Msgs :
          UnboundedSender_send(s, id, message)
    \/ \E s \in SenderIds : Sender_send_resume(s)
    \/ \E s \in SenderIds : Sender_send_cancel(s)
    \/ \E s \in SenderIds : Sender_clone(s)
    \/ \E s \in SenderIds : Sender_drop(s)
    \/ \E p \in Positions : Receiver_recv(p)
    \/ \E p \in Positions, limit \in Limits : Receiver_recv_many(p, limit)
    \/ \E p \in Positions : Receiver_try_recv(p)
    \/ \E p \in Positions : Receiver_close(p)
    \/ \E p \in Positions : UnboundedReceiver_recv(p)
    \/ \E p \in Positions, limit \in Limits : UnboundedReceiver_recv_many(p, limit)
    \/ \E p \in Positions : UnboundedReceiver_try_recv(p)
    \/ \E p \in Positions : UnboundedReceiver_close(p)
    \/ \E p \in Positions : Receiver_cancel(p)
    \/ \E p \in Positions : Receiver_drop(p)

Spec == Init /\ [][Next]_vars

\* ------------------------------------------------------------ scheduling
\* Every position a factory call of FactoryArgs makes.
AllPositions == UNION {0..(args.num_consumers - 1) : args \in FactoryArgs}

\* The task of a suspended recv is polled after it was woken.
Receiver_recv_resume(p) ==
    /\ p \in Positions
    /\ rx_op[p].op = "recv"
    /\ Rx_recv(p)

\* The task of a suspended recv_many is polled after it was woken.
Receiver_recv_many_resume(p) ==
    /\ p \in Positions
    /\ rx_op[p].op = "recv_many"
    /\ Rx_recv_many(p, rx_op[p].limit)

\* The tokio scheduler polls every task that was woken: a suspended send,
\* recv or recv_many that can make progress is polled unless its future is
\* dropped first.  Nothing makes a caller start a new call.
Fairness ==
    /\ \A s \in SenderIds : WF_vars(Sender_send_resume(s))
    /\ \A p \in AllPositions : WF_vars(Receiver_recv_resume(p))
    /\ \A p \in AllPositions : WF_vars(Receiver_recv_many_resume(p))

FairSpec == Init /\ [][Next]_vars /\ Fairness

\* ============================================================ properties
\* Where a message is: the number of its copies in the sequences seqs[0],
\* seqs[1], ...
RECURSIVE CountFrom(_, _, _)
CountFrom(seqs, m, c) ==
    IF c \notin DOMAIN seqs THEN 0
    ELSE Len(SelectSeq(seqs[c], LAMBDA x : x = m)) + CountFrom(seqs, m, c + 1)

Occurrences(seqs, m) == CountFrom(seqs, m, 0)

Buffered(m) == Occurrences(buf, m)

Delivered(m) == Occurrences(received, m)

Held(m) == Cardinality({s \in SenderIds : tx_op[s].st # "idle" /\ tx_op[s].msg = m})

WithCaller(m) == (IF m \in returned THEN 1 ELSE 0) + Held(m)

Destroyed(m) == IF m \in lost THEN 1 ELSE 0

\* The messages passed to a send at least once.
Passed == 1..(next_msg - 1)

\* The sends suspended on channel c that were handed a permit and have not
\* pushed yet.
Granted(c) == Cardinality({s \in SenderIds : tx_op[s].st = "granted" /\ tx_op[s].chan = c})

IsPrefix(a, b) == Len(a) <= Len(b) /\ SubSeq(b, 1, Len(a)) = a

\* C1: sticky routing.  Any two messages pushed after sends made with equal
\* keys, through whichever clone, are in the same channel, and no key is seen at
\* two Receivers.
C1_StickyRouting ==
    /\ \A c1 \in Chans, c2 \in Chans :
          \A j1 \in 1..Len(enq[c1]), j2 \in 1..Len(enq[c2]) :
              sent_key[enq[c1][j1]] = sent_key[enq[c2][j2]] => c1 = c2
    /\ \A p1 \in Positions, p2 \in Positions :
          \A j1 \in 1..Len(received[p1]), j2 \in 1..Len(received[p2]) :
              sent_key[received[p1][j1]] = sent_key[received[p2][j2]] => p1 = p2

\* Two messages with the same key sit in one of two channels, two clones alive.
C1_Witness ==
    /\ Cardinality(Chans) = 2
    /\ Cardinality(AliveSenders) = 2
    /\ \E c \in Chans :
          /\ Len(enq[c]) = 2
          /\ sent_key[enq[c][1]] = sent_key[enq[c][2]]

\* C2: per-queue FIFO.  What a Receiver has returned, through recv, recv_many
\* and try_recv in any mix, followed by what its channel still buffers, is the
\* sequence of the sends that completed on that channel, in completion order.
C2_Fifo ==
    \A p \in Positions :
        /\ IsPrefix(received[p], enq[receivers[p]])
        /\ rx_alive[p] => received[p] \o buf[receivers[p]] = enq[receivers[p]]

\* A Receiver has returned two messages.
C2_Witness == \E p \in Positions : Len(received[p]) = 2 /\ rx_alive[p]

C4_ConservationAfterDrop ==
    (tx_closed /\ \A p \in Positions : rx_alive[p] /\ got_none[p])
        => \A m \in Msgs : Delivered(m) = IF outcome[m] = "Ok" THEN 1 ELSE 0

\* Two Receivers were drained to None after all clones were dropped, each
\* having returned a message.
C4_Witness ==
    /\ tx_closed
    /\ Cardinality(Positions) = 2
    /\ \A p \in Positions : rx_alive[p] /\ got_none[p] /\ Len(received[p]) = 1

\* C5: a message whose send with key k succeeded is seen only through the
\* Receiver at position hash(k) % N of the sequence the factory returned: it is
\* buffered in that Receiver's channel or was returned by it, nowhere else.
C5_RoutePosition ==
    \E h \in Hashers :
        /\ \A s \in AliveSenders : senders[s].build_hasher = h
        /\ \A c \in Chans : \A j \in 1..Len(enq[c]) :
              LET m == enq[c][j]
                  pos == hash_one(h, sent_key[m]) % Cardinality(Positions)
              IN  /\ receivers[pos] = c
                  /\ \A p \in Positions : m \in SeqToSet(received[p]) => p = pos
                  /\ \A c2 \in Chans : m \in SeqToSet(buf[c2]) => c2 = receivers[pos]

\* The second of two Receivers returned a message sent with key 2.
C5_Witness ==
    /\ Cardinality(Positions) = 2
    /\ received[1] # <<>>
    /\ sent_key[received[1][1]] = 2

\* C6 as stated: a try_send routed to an open queue of a bounded channel
\* succeeds exactly when the queue buffers fewer than capacity messages and
\* returns ChannelFull when it buffers capacity.
C6_Original ==
    variant = "bounded" =>
        \A s \in AliveSenders, id \in Keys :
            LET c == target(s, id)
            IN  (c # NoChan /\ ~rx_closed[c] /\ tx_op[s].st = "idle") =>
                    /\ Sender_try_send_result(s, id) = "Ok" <=> Len(buf[c]) < capacity
                    /\ Sender_try_send_result(s, id) = "ChannelFull" <=> Len(buf[c]) = capacity

\* C6, amended: a try_send routed to an open queue of a bounded channel returns
\* at once, Ok or ChannelFull; it succeeds exactly when the buffered messages
\* plus the slots already handed to suspended sends that have not pushed yet
\* are fewer than capacity, and returns ChannelFull when they are capacity.  With
\* no send suspended this is the count of buffered messages alone.
C6_Backpressure ==
    variant = "bounded" =>
        /\ \A c \in Chans : Len(buf[c]) + Granted(c) <= capacity
        /\ \A s \in AliveSenders, id \in Keys :
              LET c == target(s, id)
                  used == Len(buf[c]) + Granted(c)
              IN  (c # NoChan /\ ~rx_closed[c] /\ tx_op[s].st = "idle") =>
                      /\ Sender_try_send_result(s, id) \in {"Ok", "ChannelFull"}
                      /\ Sender_try_send_result(s, id) = "Ok" <=> used < capacity
                      /\ Sender_try_send_result(s, id) = "ChannelFull" <=> used = capacity

\* After a recv the queue is open and empty, every slot is held by a woken
\* send that has not pushed yet, and the other clone's try_send is refused
\* with ChannelFull.
C6_Witness ==
    /\ variant = "bounded"
    /\ \E p \in Positions : received[p] # <<>>
    /\ \E c \in Chans, s \in AliveSenders, id \in Keys :
          /\ target(s, id) = c
          /\ tx_op[s].st = "idle"
          /\ ~rx_closed[c]
          /\ buf[c] = <<>>
          /\ Granted(c) = capacity
          /\ Sender_try_send_result(s, id) = "ChannelFull"

\* What position p has returned since close() was last called on its channel.
SinceClose(p) ==
    SubSeq(received[p], at_close[receivers[p]].n + 1, Len(received[p]))

C8_ClosePermanent ==
    \A c \in Chans :
        at_close[c].called =>
            /\ rx_closed[c]
            /\ Len(enq[c]) = at_close[c].n + Len(at_close[c].buf)
            /\ Len(buf[c]) <= Len(at_close[c].buf)
            /\ \A s \in AliveSenders, id \in Keys :
                  target(s, id) = c =>
                      /\ variant = "bounded" =>
                            /\ Sender_send_result(s, id) = "ChannelClosed"
                            /\ Sender_try_send_result(s, id) = "ChannelClosed"
                      /\ variant = "unbounded" =>
                            UnboundedSender_send_result(s, id) = "ChannelClosed"
            /\ \A s \in SenderIds :
                  (tx_op[s].st # "idle" /\ tx_op[s].chan = c)
                      => Sender_send_resume_result(s) = "ChannelClosed"

\* close() was called on a full queue, the Receiver drained it so that every
\* slot is free, and a send routed to it was refused with ChannelClosed.
C8_Witness ==
    \E p \in Positions :
        LET c == receivers[p]
        IN  /\ variant = "bounded"
            /\ at_close[c].called
            /\ rx_alive[p]
            /\ Len(at_close[c].buf) = capacity
            /\ buf[c] = <<>>
            /\ permits[c] = capacity
            /\ \E m \in returned, s \in AliveSenders :
                  outcome[m] = "ChannelClosed" /\ target(s, sent_key[m]) = c

\* C9 as stated: once a Receiver's recv has returned None, every later recv
\* returns None, every later recv_many with limit > 0 returns 0 and every later
\* try_recv returns Disconnected.
C9_Original ==
    \A p \in Positions :
        (got_none[p] /\ rx_alive[p]) =>
            /\ mpsc_recv(receivers[p]) = "None"
            /\ \A limit \in Limits \ {0} :
                  mpsc_recv_many(receivers[p], limit) = [pending |-> FALSE, n |-> 0]
            /\ mpsc_try_recv(receivers[p]) = {"Disconnected"}

\* C9, amended: once a Receiver's recv has returned None, its queue is empty
\* for good, every later recv returns None and every later recv_many with
\* limit > 0 returns 0; try_recv never returns a message: it returns
\* Disconnected once every Sender is gone, and Disconnected or Empty, as the
\* tokio release has it, when the queue was closed by close() with a Sender
\* still alive.
C9_ClosedIndicatorPermanent ==
    \A p \in Positions :
        (got_none[p] /\ rx_alive[p]) =>
            /\ buf[receivers[p]] = <<>>
            /\ mpsc_recv(receivers[p]) = "None"
            /\ \A limit \in Limits \ {0} :
                  mpsc_recv_many(receivers[p], limit) = [pending |-> FALSE, n |-> 0]
            /\ mpsc_try_recv(receivers[p]) \subseteq {"Disconnected", "Empty"}
            /\ tx_closed => mpsc_try_recv(receivers[p]) = {"Disconnected"}

\* A Receiver closed its queue while a Sender was alive, returned the buffered
\* message and then None.
C9_Witness ==
    \E p \in Positions :
        /\ got_none[p]
        /\ rx_alive[p]
        /\ received[p] # <<>>
        /\ ~tx_closed
        /\ mpsc_try_recv(receivers[p]) = {"Disconnected", "Empty"}

\* C10: while a Sender clone is alive and the Receiver has not closed, the
\* queue is open whichever other clones were dropped: its contents are what was
\* pushed and not yet received, its Receiver has never been told None, recv on
\* it when empty suspends, try_recv does not report Disconnected, and no send
\* through a live clone fails with ChannelClosed.
C10_ClosedOnlyByCloseOrLastDrop ==
    \A p \in Positions :
        LET c == receivers[p]
        IN  (~tx_closed /\ ~rx_closed[c]) =>
                /\ rx_alive[p]
                /\ ~got_none[p]
                /\ received[p] \o buf[c] = enq[c]
                /\ buf[c] = <<>> => mpsc_recv(c) = "Pending"
                /\ buf[c] # <<>> => mpsc_recv(c) = "Some"
                /\ "Disconnected" \notin mpsc_try_recv(c)
                /\ \A s \in AliveSenders, id \in Keys :
                      target(s, id) = c =>
                          /\ Sender_send_result(s, id) # "ChannelClosed"
                          /\ Sender_try_send_result(s, id) # "ChannelClosed"
                          /\ UnboundedSender_send_result(s, id) # "ChannelClosed"

\* The first Sender was dropped while its clone lives; a queue still buffers a
\* message and the clone's send to it would succeed or suspend.
C10_Witness ==
    /\ ~senders[1].alive
    /\ senders[2].alive
    /\ \E p \in Positions :
          /\ ~rx_closed[receivers[p]]
          /\ buf[receivers[p]] # <<>>
          /\ \E id \in Keys : target(2, id) = receivers[p]

\* C11: after the Receiver of a queue has been dropped, every send of either
\* variant and every try_send routed to that queue, and every suspended send
\* that resumes on it, returns ChannelClosed; and a message whose send returned
\* ChannelClosed is back with the caller: it is neither buffered, delivered nor
\* destroyed.
C11_ClosedAfterReceiverDrop ==
    /\ \A p \in Positions :
          ~rx_alive[p] =>
              /\ \A s \in AliveSenders, id \in Keys :
                    target(s, id) = receivers[p] =>
                        /\ variant = "bounded" =>
                              /\ Sender_send_result(s, id) = "ChannelClosed"
                              /\ Sender_try_send_result(s, id) = "ChannelClosed"
                        /\ variant = "unbounded" =>
                              UnboundedSender_send_result(s, id) = "ChannelClosed"
              /\ \A s \in SenderIds :
                    (tx_op[s].st # "idle" /\ tx_op[s].chan = receivers[p])
                        => Sender_send_resume_result(s) = "ChannelClosed"
    /\ \A m \in Msgs :
          outcome[m] = "ChannelClosed" =>
              /\ m \in returned
              /\ Held(m) + Buffered(m) + Delivered(m) + Destroyed(m) = 0

\* A Receiver was dropped with nothing buffered and never closed by hand, and a
\* send routed to its queue handed its message back with ChannelClosed.
C11_Witness ==
    \E p \in Positions :
        /\ ~rx_alive[p]
        /\ lost = {}
        /\ \E m \in returned, s \in AliveSenders :
              /\ outcome[m] = "ChannelClosed"
              /\ target(s, sent_key[m]) = receivers[p]

\* A send or try_send of message m fails in this step: the call, or the
\* suspended send that resumes, returns one of the four errors.
FailsNow(m) ==
    /\ outcome'[m] \in SendErrors
    /\ <<outcome'[m], sent_key'[m]>> # <<outcome[m], sent_key[m]>>

\* C12: lossless errors.  A step in which a send or try_send fails hands the
\* very message back to the caller and leaves every queue as it was: what each
\* buffers, what each was ever pushed, whether the Receiver closed it, which
\* Senders are alive, and what was delivered or destroyed.
C12_LosslessErrors ==
    [][\A m \in Msgs :
          FailsNow(m) =>
              /\ m \in returned'
              /\ returned' \ {m} = returned \ {m}
              /\ buf' = buf
              /\ enq' = enq
              /\ rx_closed' = rx_closed
              /\ senders' = senders
              /\ rx_alive' = rx_alive
              /\ received' = received
              /\ lost' = lost
      ]_vars

\* A try_send was refused with ChannelFull: the message is back with the
\* caller and the full, open queue it was routed to still holds the other one.
C12_Witness ==
    \E m \in returned, s \in AliveSenders :
        LET c == target(s, sent_key[m])
        IN  /\ outcome[m] = "ChannelFull"
            /\ c # NoChan
            /\ ~rx_closed[c]
            /\ Len(buf[c]) = capacity
            /\ m \notin SeqToSet(buf[c])

\* No send of the unbounded variant is ever suspended, and a send routed to an
\* open queue returns Ok whatever the queue buffers.
UnboundedSendNeverWaits ==
    variant = "unbounded" =>
        /\ \A s \in SenderIds : tx_op[s] = IdleTx
        /\ \A c \in Chans : waiters[c] = <<>>
        /\ \A m \in Msgs : outcome[m] \notin {"Pending", "ChannelFull"}
        /\ \A s \in AliveSenders, id \in Keys :
              /\ UnboundedSender_send_result(s, id) \notin {"Pending", "ChannelFull"}
              /\ (target(s, id) # NoChan /\ ~rx_closed[target(s, id)])
                    => UnboundedSender_send_result(s, id) = "Ok"

\* A send of message m returns Ok in this step.
SucceedsNow(m) ==
    /\ outcome'[m] = "Ok"
    /\ <<outcome'[m], sent_key'[m], m \in returned'>> # <<outcome[m], sent_key[m], m \in returned>>

\* C15: an unbounded send never suspends and never reports ChannelFull: for
\* any backlog, a send routed to an open unbounded queue returns Ok in the one
\* step of the call, and that step appends the message to the end of that queue
\* and changes no other queue.
C15_UnboundedSendImmediate ==
    /\ []UnboundedSendNeverWaits
    /\ [][variant = "unbounded" =>
            \A m \in Msgs :
                SucceedsNow(m) =>
                    \E s \in AliveSenders :
                        LET c == target(s, sent_key'[m])
                        IN  /\ c # NoChan
                            /\ ~rx_closed[c]
                            /\ buf' = [buf EXCEPT ![c] = Append(@, m)]
      ]_vars

\* An unbounded queue is open and already buffers a message, and a further
\* send to it returned Ok and put its message behind it.
C15_Witness ==
    /\ variant = "unbounded"
    /\ \E c \in Chans, m \in Msgs :
          /\ ~rx_closed[c]
          /\ Len(buf[c]) >= 2
          /\ outcome[m] = "Ok"
          /\ buf[c][Len(buf[c])] = m

\* C16 as stated: try_recv returns the oldest buffered message when the queue
\* is non-empty, Empty when it is empty and open, and Disconnected when it is
\* empty and closed, by the drop of every Sender or by close() with a Sender
\* alive.
C16_Original ==
    \A p \in Positions :
        LET c == receivers[p]
        IN  rx_alive[p] =>
                /\ buf[c] # <<>> => mpsc_try_recv(c) = {"Ok"}
                /\ (buf[c] = <<>> /\ ~tx_closed /\ ~rx_closed[c]) => mpsc_try_recv(c) = {"Empty"}
                /\ (buf[c] = <<>> /\ (tx_closed \/ rx_closed[c]))
                      => mpsc_try_recv(c) = {"Disconnected"}

\* C16, amended: try_recv never suspends: it returns a message, Empty or
\* Disconnected and leaves the Receiver idle.  It returns the oldest buffered
\* message when the queue is non-empty, open or closed; Empty when it is empty
\* and open; Disconnected when it is empty and every Sender is dropped; when it
\* is empty and closed by close() with a Sender alive it returns Disconnected
\* or Empty, as the tokio release has it.
C16_TryRecvClassifies ==
    \A p \in Positions :
        LET c == receivers[p]
        IN  rx_alive[p] =>
                /\ mpsc_try_recv(c) # {}
                /\ mpsc_try_recv(c) \subseteq {"Ok", "Empty", "Disconnected"}
                /\ received[p] \o buf[c] = enq[c]
                /\ buf[c] # <<>> => mpsc_try_recv(c) = {"Ok"}
                /\ (buf[c] = <<>> /\ ~tx_closed /\ ~rx_closed[c]) => mpsc_try_recv(c) = {"Empty"}
                /\ (buf[c] = <<>> /\ tx_closed) => mpsc_try_recv(c) = {"Disconnected"}
                /\ (buf[c] = <<>> /\ ~tx_closed /\ rx_closed[c])
                      => mpsc_try_recv(c) \subseteq {"Disconnected", "Empty"}

\* close() was called on a queue that buffered a message while a Sender is
\* alive; the Receiver took the message without being told None, and the
\* queue is now empty: try_recv may return Empty.
C16_Witness ==
    \E p \in Positions :
        LET c == receivers[p]
        IN  /\ rx_alive[p]
            /\ rx_op[p].op = "idle"
            /\ rx_closed[c]
            /\ ~tx_closed
            /\ at_close[c].buf # <<>>
            /\ SinceClose(p) = at_close[c].buf
            /\ buf[c] = <<>>
            /\ ~got_none[p]
            /\ "Empty" \in mpsc_try_recv(c)

\* recv_many with limit 0 returns 0 at its first poll, whatever the queue
\* holds and whether it is open or closed.
ZeroLimitReturnsZero ==
    \A p \in Positions :
        rx_alive[p] => mpsc_recv_many(receivers[p], 0) = [pending |-> FALSE, n |-> 0]

\* C17: zero-limit no-op.  recv_many(buffer, 0) returns 0 at once in every
\* queue state, without suspending, and the call changes nothing: not the
\* caller's buffer, not what any queue holds, nor anything else.
C17_ZeroLimitNoOp ==
    /\ []ZeroLimitReturnsZero
    /\ [][\A p \in Positions : Rx_recv_many(p, 0) => UNCHANGED vars]_vars

\* The caller's buffer already holds a message and the queue is open and
\* empty, where a receive with a limit above 0 suspends: recv_many with limit 0
\* returns 0.
C17_Witness ==
    \E p \in Positions :
        LET c == receivers[p]
        IN  /\ rx_alive[p]
            /\ rx_op[p].op = "idle"
            /\ received[p] # <<>>
            /\ buf[c] = <<>>
            /\ ~rx_closed[c]
            /\ ~tx_closed
            /\ mpsc_recv_many(c, 1).pending
            /\ mpsc_recv_many(c, 0) = [pending |-> FALSE, n |-> 0]

\* C18: for a limit above 0, recv_many returns 0 only when the queue is closed
\* and holds nothing; on an empty queue that is open it suspends, and on a
\* non-empty queue it returns at least 1 without suspending.  A suspended
\* recv_many is suspended on an empty queue.
C18_ZeroOnlyWhenClosedAndDrained ==
    \A p \in Positions :
        LET c == receivers[p]
        IN  rx_alive[p] =>
                /\ \A limit \in Limits \ {0} :
                      LET res == mpsc_recv_many(c, limit)
                      IN  /\ (~res.pending /\ res.n = 0)
                                => (buf[c] = <<>> /\ (rx_closed[c] \/ tx_closed))
                          /\ (buf[c] = <<>> /\ ~rx_closed[c] /\ ~tx_closed) => res.pending
                          /\ buf[c] # <<>> => (~res.pending /\ res.n >= 1)
                          /\ res.pending => res.n = 0
                /\ rx_op[p].op = "recv_many" => rx_op[p].limit > 0

\* A recv_many with limit 2 is suspended on a queue that is open and that the
\* Receiver has emptied.
C18_Witness ==
    \E p \in Positions :
        LET c == receivers[p]
        IN  /\ rx_alive[p]
            /\ rx_op[p] = [op |-> "recv_many", limit |-> 2]
            /\ received[p] # <<>>
            /\ buf[c] = <<>>
            /\ ~rx_closed[c]
            /\ ~tx_closed

\* C19: a recv_many with a limit above 0 on a queue that buffers k >= 1
\* messages returns min(limit, k): the step appends the min(limit, k) oldest
\* messages, in their order, to the end of the caller's buffer, whose earlier
\* elements stay as they were, and leaves the other k - min(limit, k) buffered
\* in their order; no other queue and no other caller's buffer changes.
C19_RecvManyResult ==
    [][\A p \in Positions, limit \in Limits \ {0} :
          LET c == receivers[p]
              k == Len(buf[c])
              n == Min(limit, k)
          IN  (k >= 1 /\ Rx_recv_many(p, limit)) =>
                  /\ mpsc_recv_many(c, limit) = [pending |-> FALSE, n |-> n]
                  /\ received'[p] = received[p] \o SubSeq(buf[c], 1, n)
                  /\ buf'[c] = SubSeq(buf[c], n + 1, k)
                  /\ \A q \in Positions \ {p} :
                        /\ received'[q] = received[q]
                        /\ buf'[receivers[q]] = buf[receivers[q]]
      ]_vars

\* Two messages were pushed on one queue; the Receiver's buffer holds the
\* older one and the queue still buffers the newer one.
C19_Witness ==
    \E p \in Positions :
        LET c == receivers[p]
        IN  /\ rx_alive[p]
            /\ rx_op[p].op = "idle"
            /\ Len(enq[c]) = 2
            /\ received[p] = <<enq[c][1]>>
            /\ buf[c] = <<enq[c][2]>>

\* A suspended receive of position p ends in this step without handing the
\* caller anything: its future is dropped, or it returns the end of the queue.
EndsEmptyHanded(p) ==
    /\ rx_op[p].op # "idle"
    /\ rx_op'[p].op = "idle"
    /\ received'[p] = received[p]

\* Every queue of a live Receiver holds exactly what was pushed on it and not
\* yet received, in order, and a receive on it when it holds a message returns
\* one at once.
NothingConsumedUnseen ==
    \A p \in Positions :
        rx_alive[p] =>
            /\ received[p] \o buf[receivers[p]] = enq[receivers[p]]
            /\ buf[receivers[p]] # <<>> =>
                  /\ mpsc_recv(receivers[p]) = "Some"
                  /\ \A limit \in Limits \ {0} :
                        ~mpsc_recv_many(receivers[p], limit).pending

\* C20: cancellation safety of receive.  A suspended recv or recv_many that is
\* abandoned has consumed no message: the step leaves every queue, every
\* caller's buffer and the destroyed messages as they were, also when a message
\* was pushed after the receive suspended, and leaves the Receiver ready for a
\* new call.  At all times what a live Receiver has been handed followed by
\* what its queue buffers is what was pushed, in order, so messages sent after
\* an abandoned receive are delivered in order by later receives.
C20_RecvCancelSafe ==
    /\ []NothingConsumedUnseen
    /\ [][\A p \in Positions :
            EndsEmptyHanded(p) =>
                /\ buf' = buf
                /\ enq' = enq
                /\ received' = received
                /\ lost' = lost
                /\ permits' = permits
                /\ rx_closed' = rx_closed
                /\ rx_alive'[p]
      ]_vars

\* A Receiver that was handed a message has no receive in progress, its open
\* queue buffers a later message and nothing was destroyed: a recv made now
\* returns that message.
C20_Witness ==
    \E p \in Positions :
        LET c == receivers[p]
        IN  /\ rx_alive[p]
            /\ rx_op[p].op = "idle"
            /\ ~rx_closed[c]
            /\ ~tx_closed
            /\ received[p] # <<>>
            /\ buf[c] # <<>>
            /\ lost = {}
            /\ mpsc_recv(c) = "Some"

\* A bounded send routed to a queue that is open and buffers capacity messages
\* suspends, and the message of a suspended send is in no queue.
SuspendsWhenFull ==
    variant = "bounded" =>
        /\ \A s \in AliveSenders, id \in Keys :
              LET c == target(s, id)
              IN  (c # NoChan /\ ~rx_closed[c] /\ Len(buf[c]) = capacity /\ tx_op[s].st = "idle")
                      => Sender_send_result(s, id) = "Pending"
        /\ \A s \in SenderIds :
              tx_op[s].st # "idle" =>
                  /\ Held(tx_op[s].msg) = 1
                  /\ Buffered(tx_op[s].msg) = 0
                  /\ tx_op[s].msg \notin returned

\* The suspended send of s ends in this step: with Ok and its message at the
\* end of its queue, which is open; or with ChannelClosed, its message back
\* with the caller and nothing pushed, on a closed queue; or abandoned.
EndsProperly(s) ==
    LET c == tx_op[s].chan
        m == tx_op[s].msg
    IN  \/ /\ outcome'[m] = "Ok"
           /\ tx_op[s].st = "granted"
           /\ ~rx_closed[c]
           /\ buf' = [buf EXCEPT ![c] = Append(@, m)]
        \/ /\ outcome'[m] = "ChannelClosed"
           /\ rx_closed[c]
           /\ m \in returned'
           /\ buf' = buf
           /\ enq' = enq
        \/ /\ outcome'[m] = "Dropped"
           /\ m \in lost'
           /\ buf' = buf
           /\ enq' = enq

\* Space was freed for the suspended send of s, or its queue was closed.
SendWoken(s) ==
    /\ tx_op[s].st # "idle"
    /\ \/ tx_op[s].st = "granted"
       \/ rx_closed[tx_op[s].chan]
       \/ permits[tx_op[s].chan] > 0

\* C13: bounded send suspension and resumption.  A bounded send whose queue is
\* full and open suspends and pushes nothing.  A suspended send ends only by
\* pushing its message and returning Ok, after a receive freed a slot for it and
\* while the queue is open, or by returning ChannelClosed with its message and
\* pushing nothing, when the queue is closed, or by being abandoned.  Under fair
\* scheduling a suspended send for which a slot was freed or whose queue was
\* closed does not wait forever: it ends.
C13_SuspendedSendCompletes ==
    /\ []SuspendsWhenFull
    /\ [][\A s \in SenderIds :
            (tx_op[s].st # "idle" /\ tx_op'[s].st = "idle") => EndsProperly(s)]_vars
    /\ \A s \in SenderIds, m \in Msgs :
          (SendWoken(s) /\ tx_op[s].msg = m)
              ~> (outcome[m] \in {"Ok", "ChannelClosed", "Dropped"})

\* A send suspended on a full queue; the Receiver then took a message, and the
\* slot it freed was handed to the suspended send, which has not run yet.
C13_Witness ==
    /\ variant = "bounded"
    /\ \E s \in SenderIds, p \in Positions :
          /\ tx_op[s].st = "granted"
          /\ tx_op[s].chan = receivers[p]
          /\ outcome[tx_op[s].msg] = "Pending"
          /\ received[p] # <<>>
          /\ ~rx_closed[receivers[p]]

\* A recv on a queue that is empty and open suspends, and a suspended recv has
\* not been told None.
SuspendsWhenEmpty ==
    \A p \in Positions :
        rx_alive[p] =>
            /\ (buf[receivers[p]] = <<>> /\ ~rx_closed[receivers[p]] /\ ~tx_closed)
                  => mpsc_recv(receivers[p]) = "Pending"
            /\ rx_op[p].op = "recv" => ~got_none[p]

\* The suspended recv of position p ends in this step: with the oldest
\* buffered message; or with None, on a closed queue that buffers nothing; or
\* abandoned, with nothing taken.
RecvEndsProperly(p) ==
    LET c == receivers[p]
    IN  \/ /\ buf[c] # <<>>
           /\ received'[p] = Append(received[p], Head(buf[c]))
           /\ buf'[c] = Tail(buf[c])
           /\ got_none' = got_none
        \/ /\ buf[c] = <<>>
           /\ rx_closed[c] \/ tx_closed
           /\ got_none'[p]
           /\ received' = received
           /\ buf' = buf
        \/ /\ received' = received
           /\ got_none' = got_none
           /\ buf' = buf

\* C14: recv liveness.  A recv on an empty, open queue suspends and delivers
\* nothing.  A suspended recv ends only by returning the oldest buffered
\* message, by returning None on a closed queue that buffers nothing, or by
\* being abandoned.  Under fair scheduling a suspended recv ends once a message
\* is buffered in its queue, and ends once its queue is closed, by close() or
\* by the drop of every Sender, with nothing buffered.
C14_RecvCompletes ==
    /\ []SuspendsWhenEmpty
    /\ [][\A p \in Positions :
            (rx_op[p].op = "recv" /\ rx_op'[p].op = "idle") => RecvEndsProperly(p)]_vars
    /\ \A p \in AllPositions :
          /\ (p \in Positions /\ rx_op[p].op = "recv" /\ buf[receivers[p]] # <<>>)
                ~> (p \in Positions /\ rx_op[p].op = "idle")
          /\ (/\ p \in Positions
              /\ rx_op[p].op = "recv"
              /\ buf[receivers[p]] = <<>>
              /\ rx_closed[receivers[p]] \/ tx_closed)
                ~> (p \in Positions /\ rx_op[p].op = "idle")

\* A recv suspended on an empty, open queue, and a message was then pushed on
\* it: the recv is woken and has not run yet.
C14_Witness ==
    \E p \in Positions :
        /\ rx_alive[p]
        /\ rx_op[p].op = "recv"
        /\ buf[receivers[p]] # <<>>
        /\ ~rx_closed[receivers[p]]
        /\ ~tx_closed

\* C21 as stated: the message of a bounded send that was abandoned while
\* suspended has not been pushed on any queue, and it is either in a queue or
\* delivered, or back with the caller: in exactly one of the two.
C21_Original ==
    \A m \in Msgs :
        outcome[m] = "Dropped" =>
            /\ Buffered(m) + Delivered(m) = 0
            /\ m \in returned

\* C22 as stated: building a bounded channel with capacity 0 succeeds without
\* a fault and yields the queues asked for, each of which buffers at most 0
\* messages.
C22_Original ==
    (variant = "bounded" /\ capacity = 0) =>
        /\ ~panicked
        /\ Positions # {}
        /\ AliveSenders # {}
        /\ \A c \in Chans : Len(buf[c]) <= 0

\* The factory call that returned was made for some consumer count N >= 1 of
\* FactoryArgs: there are N Receivers at positions 0..N-1, N queues, and every
\* live Sender clone holds N endpoints and the hasher of that call.
CountsAsRequested ==
    ~panicked =>
        \E args \in FactoryArgs :
            /\ args.num_consumers >= 1
            /\ Positions = 0..(args.num_consumers - 1)
            /\ Cardinality(Chans) = args.num_consumers
            /\ DOMAIN rx_alive = Positions
            /\ \A s \in AliveSenders :
                  /\ Cardinality(DOMAIN senders[s].consumers) = args.num_consumers
                  /\ senders[s].build_hasher = args.build_hasher

\* C23: a factory call that returns yields exactly N endpoints in the Sender
\* and exactly N Receivers for the consumer count N >= 1 asked for, and no send,
\* receive, close, clone or drop changes these counts: the receivers stay the
\* same, and every Sender clone holds the endpoints the first Sender was given.
C23_CountsFixed ==
    /\ []CountsAsRequested
    /\ [][/\ receivers' = receivers
          /\ Chans' = Chans
          /\ \A s \in SenderIds :
                senders'[s].alive =>
                    \E s0 \in AliveSenders : senders'[s].consumers = senders[s0].consumers
      ]_vars

\* After sends, a clone, the drop of the first Sender and the drop of a
\* Receiver, the remaining clone holds two endpoints and there are two
\* Receiver positions.
C23_Witness ==
    /\ ~panicked
    /\ ~senders[1].alive
    /\ senders[2].alive
    /\ Cardinality(DOMAIN senders[2].consumers) = 2
    /\ Cardinality(Positions) = 2
    /\ \E p \in Positions : ~rx_alive[p]
    /\ \E m \in Msgs : outcome[m] = "Ok"

\* For every key, consumer count and hasher: the route is the hash modulo the
\* count when the hash fits usize, and a failure when it does not.
RouteIsHashModN ==
    \A id \in Keys, bh \in Hashers, n \in 1..Cardinality(AllPositions) :
        LET h == hash_one(bh, id)
            r == compute_route_id(id, n, bh)
        IN  /\ h <= USIZE_MAX => r = [ok |-> TRUE, val |-> h % n]
            /\ h > USIZE_MAX => ~r.ok
            /\ r.ok => r.val \in 0..(n - 1)

\* Every live clone computes, for every key, the route given by the key, the
\* hasher stored by the factory and the number of endpoints, whatever was
\* sent, received, closed, cloned or dropped before.
RouteDependsOnKeyHasherCount ==
    \A s \in AliveSenders, id \in Keys :
        LET h == hash_one(senders[s].build_hasher, id)
            n == Cardinality(Positions)
        IN  /\ route_id(s, id).ok <=> h <= USIZE_MAX
            /\ route_id(s, id).ok => route_id(s, id).val = h % n
            /\ \A s2 \in AliveSenders : route_id(s2, id) = route_id(s, id)

\* C24: route computation.  compute_route_id returns hash(key) mod N when the
\* 64-bit hash fits usize and a failure, never a truncated value, when it does
\* not; the route a Sender clone computes depends only on the key, the stored
\* hasher and N; and a send that returns Ok pushes on the queue at that index.
C24_RouteComputation ==
    /\ [](RouteIsHashModN /\ RouteDependsOnKeyHasherCount)
    /\ [][\A m \in Msgs :
            (outcome'[m] = "Ok" /\ outcome[m] # "Ok") =>
                \E s \in AliveSenders :
                    LET h == hash_one(senders[s].build_hasher, sent_key'[m])
                        c == senders[s].consumers[h % Cardinality(Positions)]
                    IN  /\ h <= USIZE_MAX
                        /\ enq'[c] = Append(enq[c], m)
      ]_vars

\* One send was refused because the hash of its key does not fit usize, and
\* another pushed its message on the queue at the hash of its key modulo N.
C24_Witness ==
    \E m1, m2 \in Msgs, s \in AliveSenders :
        LET h1 == hash_one(senders[s].build_hasher, sent_key[m1])
            h2 == hash_one(senders[s].build_hasher, sent_key[m2])
        IN  /\ outcome[m1] = "FailedToComputeRouteID"
            /\ h1 > USIZE_MAX
            /\ outcome[m2] = "Ok"
            /\ h2 <= USIZE_MAX
            /\ m2 \in SeqToSet(enq[senders[s].consumers[h2 % Cardinality(Positions)]])

\* Whatever the queues hold and whether they are open, a send or try_send
\* with a key whose route computation fails returns FailedToComputeRouteID.
RouteFailureFirst ==
    \A s \in AliveSenders, id \in Keys :
        (~route_id(s, id).ok /\ tx_op[s].st = "idle") =>
            /\ variant = "bounded" =>
                  /\ Sender_send_result(s, id) = "FailedToComputeRouteID"
                  /\ Sender_try_send_result(s, id) = "FailedToComputeRouteID"
            /\ variant = "unbounded" =>
                  UnboundedSender_send_result(s, id) = "FailedToComputeRouteID"

\* C25: when the route computation fails, send and try_send return
\* FailedToComputeRouteID with the message, also when every queue is full or
\* closed; the call does not suspend, and the step changes no queue: not what
\* it buffers, its permits, its suspended sends, nor whether it is closed.
C25_RouteFailureTouchesNothing ==
    /\ []RouteFailureFirst
    /\ [][\A m \in Msgs :
            (FailsNow(m) /\ outcome'[m] = "FailedToComputeRouteID") =>
                /\ m \in returned'
                /\ UNCHANGED <<chan_vars, tx_op, rx_vars, senders>>
                /\ \A s \in AliveSenders : ~route_id(s, sent_key'[m]).ok
      ]_vars

\* Every queue of a bounded channel is full or closed, and a send was refused
\* with FailedToComputeRouteID; its message is with the caller.
C25_Witness ==
    /\ variant = "bounded"
    /\ ~panicked
    /\ \A c \in Chans : rx_closed[c] \/ Len(buf[c]) = capacity
    /\ \E c \in Chans : ~rx_closed[c]
    /\ \E m \in returned : outcome[m] = "FailedToComputeRouteID"

\* Every route a live clone computes is an index of its endpoints, and no call
\* it makes returns NoConsumer.
RouteInRange ==
    \A s \in AliveSenders, id \in Keys :
        /\ route_id(s, id).ok =>
              /\ route_id(s, id).val \in 0..(Cardinality(DOMAIN senders[s].consumers) - 1)
              /\ route_id(s, id).val \in DOMAIN senders[s].consumers
              /\ target(s, id) \in Chans
        /\ tx_op[s].st = "idle" =>
              /\ variant = "bounded" =>
                    /\ Sender_send_result(s, id) # "NoConsumer"
                    /\ Sender_try_send_result(s, id) # "NoConsumer"
              /\ variant = "unbounded" => UnboundedSender_send_result(s, id) # "NoConsumer"

\* C26: NoConsumer is unreachable on a channel built by the factory: every
\* route that is computed lies in [0, N) for the N endpoints of the Sender, so
\* no send or try_send returns NoConsumer, in any state and in any step.
C26_NoConsumerUnreachable ==
    /\ []RouteInRange
    /\ [][\A m \in Msgs : outcome'[m] # "NoConsumer"]_vars

\* With two consumers, sends with two keys were routed to two different
\* queues and both returned Ok.
C26_Witness ==
    \E m1, m2 \in Msgs, c1, c2 \in Chans :
        /\ c1 # c2
        /\ outcome[m1] = "Ok"
        /\ outcome[m2] = "Ok"
        /\ sent_key[m1] # sent_key[m2]
        /\ m1 \in SeqToSet(enq[c1])
        /\ m2 \in SeqToSet(enq[c2])

\* A try_send routed to a closed queue of a bounded channel returns
\* ChannelClosed, whatever the queue buffers.
ClosedBeforeFull ==
    variant = "bounded" =>
        \A s \in AliveSenders, id \in Keys :
            LET c == target(s, id)
            IN  (c # NoChan /\ rx_closed[c] /\ tx_op[s].st = "idle") =>
                    Sender_try_send_result(s, id) = "ChannelClosed"

\* C27: closed takes precedence over full.  A try_send routed to a closed
\* queue of a bounded channel returns ChannelClosed with the message, never
\* ChannelFull, also while the queue still buffers capacity messages: every
\* call that returns ChannelFull was routed to an open queue.
C27_ClosedBeforeFull ==
    /\ []ClosedBeforeFull
    /\ [][\A m \in Msgs :
            (FailsNow(m) /\ outcome'[m] = "ChannelFull") =>
                /\ m \in returned'
                /\ \E s \in AliveSenders :
                      /\ target(s, sent_key'[m]) # NoChan
                      /\ ~rx_closed[target(s, sent_key'[m])]
      ]_vars

\* close() was called on a queue that still buffers capacity messages, and a
\* call routed to it was refused with ChannelClosed.
C27_Witness ==
    \E p \in Positions :
        LET c == receivers[p]
        IN  /\ variant = "bounded"
            /\ rx_alive[p]
            /\ rx_closed[c]
            /\ Len(buf[c]) = capacity
            /\ \E m \in returned, s \in AliveSenders :
                  /\ outcome[m] = "ChannelClosed"
                  /\ target(s, sent_key[m]) = c
                  /\ Sender_try_send_result(s, sent_key[m]) = "ChannelClosed"

\* Every queue of a bounded channel buffers at most capacity messages, and
\* its permits account for them: the free permits, the buffered messages and
\* the slots handed to suspended sends add up to capacity.
WithinCapacity ==
    (variant = "bounded" /\ ~panicked) =>
        \A c \in Chans :
            /\ Len(buf[c]) <= capacity
            /\ permits[c] >= 0
            /\ permits[c] + Len(buf[c]) + Granted(c) = capacity

\* C28: capacity bound.  In every reachable state of a bounded channel with
\* capacity C, whatever the interleaving of send and try_send calls of the
\* Sender clones, every queue buffers at most C messages; a push happens only
\* on a queue that buffers fewer than C, and adds one message.
C28_CapacityBound ==
    /\ []WithinCapacity
    /\ [][variant = "bounded" =>
            \A c \in Chans :
                Len(buf'[c]) > Len(buf[c]) =>
                    /\ Len(buf[c]) < capacity
                    /\ Len(buf'[c]) = Len(buf[c]) + 1
      ]_vars

\* A queue buffers capacity messages; the send of one clone is suspended on
\* it and a try_send of the other clone routed to it would be refused.
C28_Witness ==
    /\ variant = "bounded"
    /\ \E c \in Chans, s1, s2 \in AliveSenders, id \in Keys :
          /\ s1 # s2
          /\ Len(buf[c]) = capacity
          /\ ~rx_closed[c]
          /\ tx_op[s1].st = "waiting"
          /\ tx_op[s1].chan = c
          /\ tx_op[s2].st = "idle"
          /\ target(s2, id) = c
          /\ Sender_try_send_result(s2, id) = "ChannelFull"
          /\ Sender_send_result(s2, id) = "Pending"

SendLooksAtOwnQueue ==
    \A s \in AliveSenders, id \in Keys :
        LET c == target(s, id)
        IN  (c # NoChan /\ ~rx_closed[c] /\ tx_op[s].st = "idle") =>
                /\ (variant = "bounded" /\ Len(buf[c]) + Granted(c) < capacity) =>
                      /\ Sender_send_result(s, id) = "Ok"
                      /\ Sender_try_send_result(s, id) = "Ok"
                /\ variant = "unbounded" => UnboundedSender_send_result(s, id) = "Ok"

QueueClosed(c) == rx_closed[c] \/ tx_closed

DrainsWithoutWaiting ==
    \A p \in Positions :
        LET c == receivers[p]
        IN  (rx_alive[p] /\ QueueClosed(c)) =>
                /\ buf[c] # <<>> =>
                      /\ mpsc_recv(c) = "Some"
                      /\ \A limit \in Limits \ {0} :
                            mpsc_recv_many(c, limit) =
                                [pending |-> FALSE, n |-> Min(limit, Len(buf[c]))]
                /\ buf[c] = <<>> =>
                      \/ /\ mpsc_recv(c) = "None"
                         /\ \A limit \in Limits \ {0} :
                               mpsc_recv_many(c, limit) = [pending |-> FALSE, n |-> 0]
                      \/ /\ mpsc_recv(c) = "Pending"
                         /\ rx_closed[c]
                         /\ ~tx_closed
                         /\ Granted(c) > 0

\* A step on a closed queue whose Receiver lives: the queue stays closed,
\* nothing is pushed, what the Receiver has returned followed by what is
\* buffered stays the same sequence, and None is returned only on an empty
\* buffer.
DrainStep ==
    \A p \in Positions :
        LET c == receivers[p]
        IN  (QueueClosed(c) /\ rx_alive'[p]) =>
                /\ QueueClosed(c)'
                /\ enq'[c] = enq[c]
                /\ received'[p] \o buf'[c] = received[p] \o buf[c]
                /\ (got_none'[p] /\ ~got_none[p]) => (buf[c] = <<>> /\ buf'[c] = <<>>)

====
